---- MODULE Spec2Model ----
(***************************************************************************)
(* The window loop of whisper/transcribe.py : transcribe().                *)
(*                                                                         *)
(* Conventions of the model                                                *)
(*  - Optional values (Python None) are sequences of length 0 or 1.        *)
(*  - Probabilities, log-probabilities and temperatures are scaled by 100  *)
(*    (no_speech_prob 0.9 is 90, avg_logprob -1.0 is -100, 0.5 is 50).     *)
(*  - Times are counted in audio samples, i.e. seconds * SAMPLE_RATE, so   *)
(*    that seek * HOP_LENGTH / SAMPLE_RATE needs no division.              *)
(*  - Python indices are kept 0-based (i, last_slice, current_slice,       *)
(*    prompt_reset_since, Segment ids); sequences are 1-based, so element  *)
(*    k of a Python list is s[k + 1].                                      *)
(*  - A Segment keeps id, seek, start, end and text; the fields copied     *)
(*    verbatim from the DecodingResult are not carried.                    *)
(***************************************************************************)
EXTENDS Integers, Sequences, FiniteSets, TLC

\* ---------------------------------------------------------------- constants
N_FRAMES == 3000
HOP_LENGTH == 160
SAMPLE_RATE == 16000
n_audio_ctx == 1500
Eot == 50257
TimestampBegin == 50364

\* ------------------------------------------------------------------- bounds
\* loop iterations explored per call
MaxWindows == 2
\* largest num_alternatives explored
MaxAlternatives == 2

\* ------------------------------------------------------------------ helpers
None == <<>>
Some(v) == <<v>>
IsNone(o) == Len(o) = 0
Val(o) == o[1]

\* utils.exact_div: the division is asserted to leave no remainder
exact_div(x, y) == IF x % y = 0 THEN x \div y ELSE -1

input_stride == exact_div(N_FRAMES, n_audio_ctx)
\* seconds per output token, in samples
time_precision == input_stride * HOP_LENGTH

\* audio.pad_or_trim along the frame axis: the length of the result
pad_or_trim(len, length) ==
    IF len > length THEN length
    ELSE IF len < length THEN len + (length - len)
    ELSE len

\* ---------------------------------------------------------------- tokenizer
Vocabulary == <<"hi", "bye", " ">>
TokenId(w) == CHOOSE t \in 1..Len(Vocabulary) : Vocabulary[t] = w
HI == TokenId("hi")
BYE == TokenId("bye")
SP == TokenId(" ")
TS(p) == TimestampBegin + p
Secs(s) == s * SAMPLE_RATE
\* timestamp position of s seconds
Pos(s) == Secs(s) \div time_precision

TokenText(t) == IF t \in 1..Len(Vocabulary) THEN Vocabulary[t] ELSE ""
\* tokenizer.decode: the text as the sequence of its pieces
TokenizerDecode(tokens) == [k \in 1..Len(tokens) |-> TokenText(tokens[k])]
IsSpace(piece) == piece \in {"", " "}
\* len(text.strip()) == 0
StripIsEmpty(text) == \A k \in 1..Len(text) : IsSpace(text[k])

\* ------------------------------------------------------------------- inputs
\* [TS(0), "hi", TS(5s), TS(5s), "bye", TS(10s)]
BoundaryExample == <<TS(0), HI, TS(Pos(5)), TS(Pos(5)), BYE, TS(Pos(10))>>
\* three consecutive pairs: the first slice starts with a text token, the second
\* holds only whitespace, the third runs from TS(15s) back to TS(10s); the two
\* tokens of the last pair differ
UnorderedExample ==
    <<HI, BYE, TS(Pos(15)), TS(Pos(15)), SP, TS(Pos(15)), TS(Pos(15)),
      HI, TS(Pos(10)), TS(Pos(12))>>
\* token sequences the model may return for one alternative of one window
TokenSeqs ==
    { <<HI, BYE>>,
      <<TS(0), TS(0)>>,
      <<TS(Pos(5))>>,
      <<TS(0), HI, Eot, TS(Pos(5))>>,
      UnorderedExample,
      BoundaryExample }
NoSpeechProbs == {60, 90}
AvgLogprobs == {-100, -50}
Languages == {"en", "hi"}
\* 10 seconds of audio
MelLengths == {Secs(10) \div HOP_LENGTH}
NumAlternatives == 1..MaxAlternatives
\* <<no_speech_threshold, logprob_threshold>>: neither, logprob_threshold alone
\* (above the lower avg_logprob), no_speech_threshold alone, both (logprob_threshold
\* equal to the lower avg_logprob)
ThresholdArgs ==
    { <<None, None>>, <<None, Some(-75)>>, <<Some(60), None>>, <<Some(60), Some(-100)>> }
\* the default tuple starts at 0; a scalar 0.6 is the one-element tuple
TemperatureArgs == {<<0, 20, 40, 60, 80, 100>>, <<60>>}
\* best_of, beam_size and patience as cli() passes them (lines 248-250)
BestOfArgs == {Some(5)}
BeamSizeArgs == {Some(5)}
PatienceArgs == {Some(0)}

SeqsOfLen(S, n) == [1..n -> S]

\* -------------------------------------------------------------------- state
VARIABLES
    args,               \* the call's arguments (never assigned after the call)
    mel_len,            \* mel.shape[-1]
    pc,                 \* "start", "loop", "silence_check", "extract", "done"
    decode_options,     \* the option dict: language, prompt, best_of, beam_size, patience
    language,
    detect_calls,       \* number of model.detect_language calls so far
    decode_calls,       \* the DecodingOptions of every model.decode call so far
    seek,
    timestamp_offset,
    segment_frames,     \* segment.shape[-1]
    segment_duration,
    result,
    i,                  \* index of the alternative being processed
    all_tokens,
    all_segments,
    prompt_reset_since,
    all_outputs,
    windows,            \* number of loop iterations started
    reset_at_decode     \* prompt_reset_since as line 162 read it for the current window

vars == <<args, mel_len, pc, decode_options, language, detect_calls, decode_calls,
          seek, timestamp_offset, segment_frames, segment_duration, result, i,
          all_tokens, all_segments, prompt_reset_since, all_outputs, windows,
                   reset_at_decode>>

NoResult == [tokens |-> <<>>, avg_logprob |-> <<>>, no_speech_prob |-> 0, temperature |-> 0]

Init ==
    /\ \E thresholds \in ThresholdArgs :
          args \in [language : {None} \cup {Some(l) : l \in Languages},
                    num_alternatives : NumAlternatives,
                    temperature : TemperatureArgs,
                    best_of : BestOfArgs,
                    beam_size : BeamSizeArgs,
                    patience : PatienceArgs,
                    no_speech_threshold : {thresholds[1]},
                    logprob_threshold : {thresholds[2]}]
    /\ mel_len \in MelLengths
    /\ pc = "start"
    /\ decode_options = [language |-> args.language, prompt |-> <<>>,
                         best_of |-> args.best_of, beam_size |-> args.beam_size,
                         patience |-> args.patience]
    /\ language = None
    /\ detect_calls = 0
    /\ decode_calls = <<>>
    /\ seek = 0
    /\ timestamp_offset = 0
    /\ segment_frames = 0
    /\ segment_duration = 0
    /\ result = NoResult
    /\ i = 0
    /\ all_tokens = [j \in 1..args.num_alternatives |-> <<>>]
    /\ all_segments = [j \in 1..args.num_alternatives |-> <<>>]
    /\ prompt_reset_since = 0
    /\ all_outputs = <<>>
    /\ windows = 0
    /\ reset_at_decode = 0

\* faulty variant: the detected language is kept in `language` only and never
\* stored in the decode options
DetectLanguageNotStored ==
    /\ pc = "start"
    /\ IsNone(decode_options.language)
    /\ \E detected \in Languages : language' = Some(detected)
    /\ detect_calls' = detect_calls + 1
    /\ pc' = "loop"
    /\ UNCHANGED <<args, mel_len, decode_options, decode_calls, seek, timestamp_offset,
                   segment_frames, segment_duration, result, i, all_tokens,
                   all_segments, prompt_reset_since, all_outputs, windows,
                   reset_at_decode>>

\* ------------------------------------------------------- language resolution
\* lines 78-89 with no language supplied; then lines 122-131
DetectLanguage ==
    /\ pc = "start"
    /\ IsNone(decode_options.language)
    /\ \E detected \in Languages :
        /\ decode_options' = [decode_options EXCEPT !.language = Some(detected)]
        /\ language' = Some(detected)
    /\ detect_calls' = detect_calls + 1
    /\ pc' = "loop"
    /\ UNCHANGED <<args, mel_len, decode_calls, seek, timestamp_offset, segment_frames,
                   segment_duration, result, i, all_tokens, all_segments,
                   prompt_reset_since, all_outputs, windows,
                   reset_at_decode>>

\* lines 78-89 with a language supplied; then lines 122-131
UseSuppliedLanguage ==
    /\ pc = "start"
    /\ ~IsNone(decode_options.language)
    /\ language' = decode_options.language
    /\ pc' = "loop"
    /\ UNCHANGED <<args, mel_len, decode_options, detect_calls, decode_calls, seek,
                   timestamp_offset, segment_frames, segment_duration, result, i,
                   all_tokens, all_segments, prompt_reset_since, all_outputs, windows,
                   reset_at_decode>>

\* ------------------------------------------------------------ window decoding
\* all_tokens[0][prompt_reset_since:]
Prompt(tokens0, since) == SubSeq(tokens0, since + 1, Len(tokens0))

\* faulty variant: the window is decoded at the last temperature of the schedule
DecodingOptionsAtLastTemperature(kwargs, temperatures) ==
    LET t == temperatures[Len(temperatures)]
    IN [language |-> kwargs.language, prompt |-> kwargs.prompt,
        best_of |-> IF t = 0 THEN None ELSE kwargs.best_of,
        beam_size |-> kwargs.beam_size,
        patience |-> kwargs.patience,
        temperature |-> t]

\* lines 92-100: kwargs = {**decode_options}; t = temperatures[0]; best_of is
\* popped when t == 0; DecodingOptions(**kwargs, temperature=t)
DecodingOptions(kwargs, temperatures) ==
    LET t == temperatures[1]
    IN [language |-> kwargs.language, prompt |-> kwargs.prompt,
        best_of |-> IF t = 0 THEN None ELSE kwargs.best_of,
        beam_size |-> kwargs.beam_size,
        patience |-> kwargs.patience,
        temperature |-> t]

\* what model.decode(segment, options)[0] may be: n alternatives, and the
\* temperature of the options it was called with
DecodingResults(n, options) ==
    [tokens : SeqsOfLen(TokenSeqs, n),
     avg_logprob : SeqsOfLen(AvgLogprobs, n),
     no_speech_prob : NoSpeechProbs,
     temperature : {options.temperature}]

\* lines 157-166: the loop test succeeds, the window is cut and decoded
DecodeWindow ==
    /\ pc = "loop"
    /\ seek < mel_len
    /\ windows < MaxWindows
    /\ windows' = windows + 1
    /\ reset_at_decode' = prompt_reset_since
    /\ timestamp_offset' = seek * HOP_LENGTH
    /\ segment_frames' = pad_or_trim(mel_len - seek, N_FRAMES)
    /\ segment_duration' = segment_frames' * HOP_LENGTH
    /\ decode_options' = [decode_options EXCEPT
                            !.prompt = Prompt(all_tokens[1], prompt_reset_since)]
    /\ LET options == DecodingOptions(decode_options', args.temperature)
       IN /\ decode_calls' = Append(decode_calls, options)
          /\ result' \in DecodingResults(args.num_alternatives, options)
    /\ i' = 0
    /\ pc' = "silence_check"
    /\ UNCHANGED <<args, mel_len, language, detect_calls, seek, all_tokens,
                   all_segments, prompt_reset_since, all_outputs>>

\* faulty variant: the avg_logprob override of line 171 is left out
ShouldSkipWithoutOverride(res, alt, no_speech_threshold, logprob_threshold) ==
    /\ ~IsNone(no_speech_threshold)
    /\ res.no_speech_prob > Val(no_speech_threshold)

\* ------------------------------------------------------------- silence gate
\* lines 168-173: should_skip of alternative i (0-based)
ShouldSkip(res, alt, no_speech_threshold, logprob_threshold) ==
    /\ ~IsNone(no_speech_threshold)
    /\ res.no_speech_prob > Val(no_speech_threshold)
    /\ ~(/\ ~IsNone(logprob_threshold)
         /\ res.avg_logprob[alt + 1] > Val(logprob_threshold))

\* line 166: the for loop moves to the next alternative, or the iteration ends;
\* result is not read again before line 163 assigns it, and is dropped here
NextAlternative ==
    IF i + 1 < Len(result.tokens)
    THEN /\ i' = i + 1
         /\ pc' = "silence_check"
         /\ result' = result
    ELSE /\ i' = i
         /\ pc' = "loop"
         /\ result' = NoResult

\* lines 166-177, should_skip true: fast-forward and continue
SkipAlternative ==
    /\ pc = "silence_check"
    /\ ShouldSkip(result, i, args.no_speech_threshold, args.logprob_threshold)
    /\ seek' = seek + segment_frames
    /\ NextAlternative
    /\ UNCHANGED <<args, mel_len, decode_options, language, detect_calls, decode_calls,
                   timestamp_offset, segment_frames, segment_duration,
                   all_tokens, all_segments, prompt_reset_since, all_outputs, windows,
                   reset_at_decode>>

\* lines 166-177, should_skip false or no no_speech_threshold: go on to line 179
KeepAlternative ==
    /\ pc = "silence_check"
    /\ ~ShouldSkip(result, i, args.no_speech_threshold, args.logprob_threshold)
    /\ pc' = "extract"
    /\ UNCHANGED <<args, mel_len, decode_options, language, detect_calls, decode_calls,
                   seek, timestamp_offset, segment_frames, segment_duration, result, i,
                   all_tokens, all_segments, prompt_reset_since, all_outputs, windows,
                   reset_at_decode>>

\* -------------------------------------------------------- segment extraction
IsTimestamp(t) == t >= TimestampBegin

\* s[a:b] of Python for 0 <= a, 0 <= b
Slice(s, a, b) == SubSeq(s, a + 1, IF b < Len(s) THEN b ELSE Len(s))

\* the elements of a set of integers in increasing order
RECURSIVE Ascending(_)
Ascending(S) ==
    IF S = {} THEN <<>>
    ELSE LET m == CHOOSE x \in S : \A y \in S : x <= y
         IN <<m>> \o Ascending(S \ {m})

\* line 180: the indices c with tokens[c - 1] and tokens[c] both timestamps
Consecutive(tokens) ==
    Ascending({c \in 1..(Len(tokens) - 1) :
                 IsTimestamp(tokens[c]) /\ IsTimestamp(tokens[c + 1])})

\* faulty variant: the empty-text test of line 137 is left out
AddSegmentKeepingBlank(segments, seek_now, start, end, text_tokens) ==
    Append(segments, [id |-> Len(segments), seek |-> seek_now, start |-> start, end |-> end,
                      text |-> TokenizerDecode(SelectSeq(text_tokens, LAMBDA t : t < Eot))])

\* faulty variant: ids are counted from 1
AddSegmentIdFromOne(segments, seek_now, start, end, text_tokens) ==
    LET text == TokenizerDecode(SelectSeq(text_tokens, LAMBDA t : t < Eot))
    IN IF StripIsEmpty(text)
       THEN segments
       ELSE Append(segments, [id |-> Len(segments) + 1, seek |-> seek_now,
                              start |-> start, end |-> end, text |-> text])

\* lines 133-153: add_segment, as the new value of all_segments[j]
AddSegment(segments, seek_now, start, end, text_tokens) ==
    LET text == TokenizerDecode(SelectSeq(text_tokens, LAMBDA t : t < Eot))
    IN IF StripIsEmpty(text)
       THEN segments
       ELSE Append(segments, [id |-> Len(segments), seek |-> seek_now,
                              start |-> start, end |-> end, text |-> text])

\* faulty variant: last_slice is not updated by line 198, every slice starts at
\* token 0
RECURSIVE SliceSegmentsFromTokenZero(_, _, _, _, _, _)
SliceSegmentsFromTokenZero(segments, seek_now, offset, tokens, consecutive, last_slice) ==
    IF consecutive = <<>> THEN segments
    ELSE LET current_slice == Head(consecutive)
             sliced_tokens == Slice(tokens, last_slice, current_slice)
             added == AddSegment(segments, seek_now,
                                 offset + (sliced_tokens[1] - TimestampBegin) * time_precision,
                                 offset + (sliced_tokens[Len(sliced_tokens)] - TimestampBegin)
                                            * time_precision,
                                 Slice(sliced_tokens, 1, Len(sliced_tokens) - 1))
         IN SliceSegmentsFromTokenZero(added, seek_now, offset, tokens,
                                       Tail(consecutive), last_slice)

\* lines 182-198: the loop over consecutive, as the new value of all_segments[j]
RECURSIVE SliceSegments(_, _, _, _, _, _)
SliceSegments(segments, seek_now, offset, tokens, consecutive, last_slice) ==
    IF consecutive = <<>> THEN segments
    ELSE LET current_slice == Head(consecutive)
             sliced_tokens == Slice(tokens, last_slice, current_slice)
             start_timestamp_position == sliced_tokens[1] - TimestampBegin
             end_timestamp_position == sliced_tokens[Len(sliced_tokens)] - TimestampBegin
             added == AddSegment(segments, seek_now,
                                 offset + start_timestamp_position * time_precision,
                                 offset + end_timestamp_position * time_precision,
                                 Slice(sliced_tokens, 1, Len(sliced_tokens) - 1))
         IN SliceSegments(added, seek_now, offset, tokens, Tail(consecutive), current_slice)

\* faulty variant: seek moves to the final token of the window instead of the
\* last consumed boundary
BoundaryAdvanceToFinalToken(tokens, last_slice) ==
    (tokens[Len(tokens)] - TimestampBegin) * input_stride

\* lines 199-202: the frames by which the consecutive-timestamps path moves seek
BoundaryAdvance(tokens, last_slice) ==
    (tokens[(last_slice - 1) + 1] - TimestampBegin) * input_stride

\* faulty variant: the first timestamp token is used instead of the last
DurationFromFirstTimestamp(tokens, seg_duration) ==
    LET timestamps == SelectSeq(tokens, LAMBDA t : t >= TimestampBegin)
    IN IF Len(timestamps) > 0
       THEN (timestamps[1] - TimestampBegin) * time_precision
       ELSE seg_duration

\* lines 205-211: duration of the single segment of the no-boundary path
Duration(tokens, seg_duration) ==
    LET timestamps == SelectSeq(tokens, IsTimestamp)
    IN IF Len(timestamps) > 0
       THEN (timestamps[Len(timestamps)] - TimestampBegin) * time_precision
       ELSE seg_duration

\* lines 224-226: prompt_reset_since after alternative j with history `history`
PromptReset(temperature, history, since) ==
    IF temperature > 50 THEN Len(history) ELSE since

\* lines 179-226 for alternative i
ExtractSegments ==
    /\ pc = "extract"
    /\ LET tokens == result.tokens[i + 1]
           consecutive == Consecutive(tokens)
       IN IF Len(consecutive) > 0
          THEN LET last_slice == consecutive[Len(consecutive)]
               IN /\ all_segments' = [all_segments EXCEPT ![i + 1] =
                         SliceSegments(@, seek, timestamp_offset, tokens, consecutive, 0)]
                  /\ seek' = seek + BoundaryAdvance(tokens, last_slice)
                  /\ all_tokens' = [all_tokens EXCEPT ![i + 1] =
                         @ \o Slice(tokens, 0, last_slice + 1)]
          ELSE /\ all_segments' = [all_segments EXCEPT ![i + 1] =
                     AddSegment(@, seek, timestamp_offset,
                                timestamp_offset + Duration(tokens, segment_duration),
                                tokens)]
               /\ seek' = seek + segment_frames
               /\ all_tokens' = [all_tokens EXCEPT ![i + 1] = @ \o tokens]
    /\ prompt_reset_since' =
           PromptReset(result.temperature, all_tokens'[i + 1], prompt_reset_since)
    /\ NextAlternative
    /\ UNCHANGED <<args, mel_len, decode_options, language, detect_calls, decode_calls,
                   timestamp_offset, segment_frames, segment_duration,
                   all_outputs, windows,
                   reset_at_decode>>

\* ------------------------------------------------------- transcript assembly
\* lines 157 and 228-230: the loop test fails and the results are returned
Finish ==
    /\ pc = "loop"
    /\ ~(seek < mel_len)
    /\ all_outputs' = [j \in 1..args.num_alternatives |->
                          [text |-> TokenizerDecode(all_tokens[j]),
                           segments |-> all_segments[j],
                           language |-> language]]
    /\ pc' = "done"
    /\ UNCHANGED <<args, mel_len, decode_options, language, detect_calls, decode_calls,
                   seek, timestamp_offset, segment_frames, segment_duration, result, i,
                   all_tokens, all_segments, prompt_reset_since, windows,
                   reset_at_decode>>

Next ==
    \/ DetectLanguage
    \/ UseSuppliedLanguage
    \/ DecodeWindow
    \/ SkipAlternative
    \/ KeepAlternative
    \/ ExtractSegments
    \/ Finish

Spec == Init /\ [][Next]_vars

\* =================================================================== claims
\* frame at which the window being processed starts
WindowStart == timestamp_offset \div HOP_LENGTH
\* the step that ends a loop iteration
IterationEnds == pc \in {"silence_check", "extract"} /\ pc' = "loop"
\* the silence gate of lines 168-175 for alternative alt (0-based) of result
Gated(alt) ==
    /\ ~IsNone(args.no_speech_threshold)
    /\ result.no_speech_prob > Val(args.no_speech_threshold)
    /\ (IsNone(args.logprob_threshold)
        \/ result.avg_logprob[alt + 1] <= Val(args.logprob_threshold))
Alternatives == 0..(args.num_alternatives - 1)
HasPair(tokens) ==
    \E k \in 1..(Len(tokens) - 1) : tokens[k] >= TimestampBegin /\ tokens[k + 1] >= TimestampBegin
\* the Segments appended to alternative alt by the step
NewSegments(alt) ==
    SubSeq(all_segments'[alt + 1], Len(all_segments[alt + 1]) + 1, Len(all_segments'[alt + 1]))
Span(seg) == [start |-> seg.start, end |-> seg.end, text |-> seg.text]
Spans(segs) == [k \in 1..Len(segs) |-> Span(segs[k])]

\* C1: every loop iteration ends with seek strictly greater than the frame at
\* which the iteration started, whatever the model returned.
C1_SeekStrictlyIncreases == [][IterationEnds => seek' > WindowStart]_vars

\* C2: the call does not stall -- every completed iteration has moved seek by at
\* least one frame, so at the loop head seek is at least the number of
\* iterations run and a finite buffer is exhausted -- and DONE is reached only
\* with seek >= the FeatureBuffer length.
C2_NoStallDoneOnlyPastEnd ==
    /\ pc = "loop" => seek >= windows
    /\ pc = "done" => seek >= mel_len

\* C3 (as written): at timestamp_offset 0 the tokens
\* [TS(0), "hi", TS(5s), TS(5s), "bye", TS(10s)] yield exactly the two Segments
\* [0,5s]="hi" and [5s,10s]="bye", and seek advances to the 10 s mark.
C3_TwoSegmentsSeekAtTenSeconds ==
    [][(pc = "extract" /\ i = 0 /\ timestamp_offset = 0
        /\ result.tokens[i + 1] = BoundaryExample)
       => /\ Spans(NewSegments(i)) =
                << [start |-> 0, end |-> Secs(5), text |-> <<"hi">>],
                   [start |-> Secs(5), end |-> Secs(10), text |-> <<"bye">>] >>
          /\ seek' = Secs(10) \div HOP_LENGTH]_vars

\* C3 (amended): at timestamp_offset 0 the tokens
\* [TS(0), "hi", TS(5s), TS(5s), "bye", TS(10s)] yield exactly one Segment,
\* [0,5s]="hi"; seek advances to the 5 s mark of the consecutive pair, not past
\* the window; the tokens through the pair are added to the history and "bye",
\* TS(10s) are left to the next window.
C3_OneSegmentSeekAtPair ==
    [][(pc = "extract" /\ i = 0 /\ timestamp_offset = 0
        /\ result.tokens[i + 1] = BoundaryExample)
       => /\ Spans(NewSegments(i)) = << [start |-> 0, end |-> Secs(5), text |-> <<"hi">>] >>
          /\ seek' = Secs(5) \div HOP_LENGTH
          /\ seek' < N_FRAMES
          /\ all_tokens'[i + 1] = all_tokens[i + 1] \o SubSeq(BoundaryExample, 1, 4)]_vars
C3_Witness ==
    /\ windows = 1 /\ pc = "loop"
    /\ all_tokens[1] = SubSeq(BoundaryExample, 1, 4)
    /\ Spans(all_segments[1]) = << [start |-> 0, end |-> Secs(5), text |-> <<"hi">>] >>
    /\ seek = Secs(5) \div HOP_LENGTH

\* C4: an alternative is skipped at the silence gate if and only if
\* no_speech_threshold is configured, no_speech_prob > no_speech_threshold, and
\* not (logprob_threshold is configured and its avg_logprob > logprob_threshold);
\* a skipped alternative adds no tokens and no Segments, any other goes on to
\* segment extraction.
C4_SkippedIffGate ==
    [][pc = "silence_check"
       => /\ (pc' # "extract") <=> Gated(i)
          /\ pc' # "extract" => (all_tokens' = all_tokens /\ all_segments' = all_segments)
          /\ pc' = "extract" => i' = i]_vars
C4_Witness ==
    /\ pc = "extract"
    /\ ~IsNone(args.no_speech_threshold) /\ ~IsNone(args.logprob_threshold)
    /\ result.no_speech_prob > Val(args.no_speech_threshold)
    /\ result.avg_logprob[i + 1] > Val(args.logprob_threshold)

\* C5: when the silence gate fires for a window (for each of its alternatives),
\* the window is skipped entirely: the token histories, the Segments and
\* prompt_reset_since are left unchanged, whatever the temperature, and the
\* iteration ends with seek exactly N_FRAMES past the window start.
C5_SilentWindowSkipped ==
    [][(pc = "silence_check" /\ \A alt \in Alternatives : Gated(alt))
       => /\ all_tokens' = all_tokens
          /\ all_segments' = all_segments
          /\ prompt_reset_since' = prompt_reset_since
          /\ pc' = "loop" => seek' = WindowStart + N_FRAMES]_vars

\* C6: no Segment of any alternative has empty or whitespace-only text, and an
\* alternative whose tokens are all timestamp or end-of-text tokens adds no
\* Segment, on either path.
NoBlankSegment ==
    \A j \in 1..Len(all_segments) : \A k \in 1..Len(all_segments[j]) :
        \E p \in 1..Len(all_segments[j][k].text) : all_segments[j][k].text[p] \notin {"", " "}
C6_NoEmptyTextSegment ==
    /\ []NoBlankSegment
    /\ [][(pc = "extract" /\ \A k \in 1..Len(result.tokens[i + 1]) :
                               result.tokens[i + 1][k] >= Eot)
          => all_segments' = all_segments]_vars
C6_Witness ==
    /\ windows = 1 /\ pc = "loop" /\ args.num_alternatives = 2
    /\ all_tokens = << <<TS(0), TS(0)>>, <<TS(Pos(5))>> >>
    /\ all_segments = << <<>>, <<>> >>

\* C7: after a window none of whose alternatives is silent, if the result's
\* temperature is > 0.5 then prompt_reset_since is the length of alternative 0's
\* token history after the window, so the next prompt
\* all_tokens[0][prompt_reset_since:] is empty; if the temperature is <= 0.5
\* no step of the window changes prompt_reset_since.
C7_PromptResetFromAlternative0 ==
    [][(pc \in {"silence_check", "extract"} /\ \A alt \in Alternatives : ~Gated(alt))
       => /\ (result.temperature <= 50) => prompt_reset_since' = prompt_reset_since
          /\ (result.temperature > 50 /\ pc' = "loop")
               => /\ prompt_reset_since' = Len(all_tokens'[1])
                  /\ Prompt(all_tokens'[1], prompt_reset_since') = <<>>]_vars

\* C8: the frames by which seek moves in one iteration are those computed from
\* alternative 0 of the result alone (N_FRAMES if it is silent or has no
\* consecutive pair, else the position of its last consumed timestamp), whatever
\* the other alternatives hold.
Alternative0Advance ==
    LET tokens == result.tokens[1]
        pairs == {c \in 1..(Len(tokens) - 1) :
                     tokens[c] >= TimestampBegin /\ tokens[c + 1] >= TimestampBegin}
        last == CHOOSE c \in pairs : \A d \in pairs : d <= c
    IN IF Gated(0) \/ pairs = {} THEN N_FRAMES
       ELSE (tokens[last] - TimestampBegin) * input_stride
C8_SeekFromAlternative0 ==
    [][IterationEnds => seek' = WindowStart + Alternative0Advance]_vars

\* C9: without a consecutive timestamp pair, a non-silent alternative produces
\* exactly one candidate Segment, [timestamp_offset, timestamp_offset + duration]
\* with the text of all tokens below end-of-text, where duration comes from the
\* last timestamp token if there is one and is segment_duration otherwise; it is
\* appended unless its text is blank; seek moves by N_FRAMES and all the tokens
\* are appended to the alternative's history.
C9_NoBoundarySegment ==
    [][(pc = "extract" /\ ~HasPair(result.tokens[i + 1]))
       => LET tokens == result.tokens[i + 1]
              stamps == {k \in 1..Len(tokens) : tokens[k] >= TimestampBegin}
              last == CHOOSE k \in stamps : \A l \in stamps : l <= k
              duration == IF stamps = {} THEN segment_duration
                          ELSE (tokens[last] - TimestampBegin) * time_precision
              text == TokenizerDecode(SelectSeq(tokens, LAMBDA t : t < Eot))
              blank == \A p \in 1..Len(text) : text[p] \in {"", " "}
          IN /\ Spans(NewSegments(i)) =
                   IF blank THEN <<>>
                   ELSE << [start |-> timestamp_offset,
                            end |-> timestamp_offset + duration, text |-> text] >>
             /\ SubSeq(all_segments'[i + 1], 1, Len(all_segments[i + 1])) = all_segments[i + 1]
             /\ seek' = seek + N_FRAMES
             /\ all_tokens'[i + 1] = all_tokens[i + 1] \o tokens]_vars
C9_Witness ==
    /\ windows = 1 /\ pc = "loop"
    /\ all_tokens[1] = <<TS(0), HI, Eot, TS(Pos(5))>>
    /\ Spans(all_segments[1]) = << [start |-> 0, end |-> Secs(5), text |-> <<"hi">>] >>
    /\ seek = N_FRAMES

\* C10: model.detect_language is called exactly once, before the first decode,
\* when no language is supplied and never when one is; the resolved language is
\* the one of every decode call's options and of every returned record.
C10_LanguageResolvedOnce ==
    /\ detect_calls = (IF IsNone(args.language) /\ pc # "start" THEN 1 ELSE 0)
    /\ pc = "start" => decode_calls = <<>>
    /\ pc # "start" =>
         /\ ~IsNone(language)
         /\ ~IsNone(args.language) => language = args.language
         /\ \A k \in 1..Len(decode_calls) : decode_calls[k].language = language
    /\ pc = "done" =>
         /\ Len(all_outputs) = args.num_alternatives
         /\ \A j \in 1..Len(all_outputs) : all_outputs[j].language = language
C10_Witness ==
    /\ pc = "done" /\ IsNone(args.language) /\ detect_calls = 1
    /\ Len(decode_calls) = 2 /\ language = Some("hi")

C12_DurationIsRemainingAudio ==
    [][/\ (pc = "loop" /\ pc' = "silence_check") =>
             segment_duration' =
                 (IF mel_len - seek < N_FRAMES THEN mel_len - seek ELSE N_FRAMES) * HOP_LENGTH
       /\ (/\ pc = "extract"
           /\ mel_len - WindowStart < N_FRAMES
           /\ \A k \in 1..Len(result.tokens[i + 1]) : ~IsTimestamp(result.tokens[i + 1][k])) =>
             \A k \in 1..Len(NewSegments(i)) :
                 /\ NewSegments(i)[k].end = timestamp_offset + (mel_len - WindowStart) * HOP_LENGTH
                 /\ NewSegments(i)[k].end <= mel_len * HOP_LENGTH]_vars

\* the candidate Segment of the k-th consecutive pair of tokens: it runs from the
\* second token of the previous pair (or from the first token) to the first
\* token of this pair, with the tokens between the two as its text
Candidate(tokens, offset, k) ==
    LET pairs == Consecutive(tokens)
        from == IF k = 1 THEN 1 ELSE pairs[k - 1] + 1
        to == pairs[k]
    IN [start |-> offset + (tokens[from] - TimestampBegin) * time_precision,
        end |-> offset + (tokens[to] - TimestampBegin) * time_precision,
        text |-> TokenizerDecode(SelectSeq(SubSeq(tokens, from + 1, to - 1),
                                           LAMBDA t : t < Eot))]
Candidates(tokens, offset) ==
    [k \in 1..Len(Consecutive(tokens)) |-> Candidate(tokens, offset, k)]

\* C13: when the tokens of an alternative hold consecutive timestamp pairs, the
\* Segments appended are the candidates of the pairs, in order and without those
\* of blank text; seek advances by the position of the timestamp token just
\* before the last pair's second token, times input_stride; the tokens up to
\* and including the last pair's second token, and no later token, are appended
\* to this alternative's history, and nothing is appended to another one's.
C13_OneCandidatePerPair ==
    [][(pc = "extract" /\ HasPair(result.tokens[i + 1])) =>
         LET tokens == result.tokens[i + 1]
             pairs == Consecutive(tokens)
             last == pairs[Len(pairs)]
         IN /\ Spans(NewSegments(i)) =
                  SelectSeq(Candidates(tokens, timestamp_offset),
                            LAMBDA c : ~StripIsEmpty(c.text))
            /\ seek' = seek + (tokens[last] - TimestampBegin) * input_stride
            /\ all_tokens'[i + 1] = all_tokens[i + 1] \o SubSeq(tokens, 1, last + 1)
            /\ \A j \in Alternatives \ {i} :
                  /\ all_tokens'[j + 1] = all_tokens[j + 1]
                  /\ all_segments'[j + 1] = all_segments[j + 1]]_vars
\* an alternative with three pairs has been processed at offset 0: two Segments
\* were appended (the whitespace candidate was not) and its whole token
\* sequence is in the history
C13_Witness ==
    /\ windows = 1
    /\ pc = "loop"
    /\ args.num_alternatives = 1
    /\ all_tokens[1] = UnorderedExample
    /\ Len(all_segments[1]) = 2
    /\ seek = Pos(10) * input_stride

\* C14: every Segment of every alternative has start <= end, whatever token
\* sequence the model returned.
C14_StartNotAfterEnd ==
    \A j \in 1..Len(all_segments) : \A k \in 1..Len(all_segments[j]) :
        all_segments[j][k].start <= all_segments[j][k].end

\* C15: every Segment appended for a window, by alternative 0 or by a later
\* alternative, has as its seek field the frame at which the window started.
C15_SegmentSeekIsWindowStart ==
    [][pc = "extract" =>
         \A k \in 1..Len(NewSegments(i)) : NewSegments(i)[k].seek = WindowStart]_vars

\* C16: the k-th Segment (counted from 0) of every alternative's list has id k:
\* ids are dense from 0 and a discarded candidate consumes no id.
C16_IdIsIndex ==
    \A j \in 1..Len(all_segments) : \A k \in 1..Len(all_segments[j]) :
        all_segments[j][k].id = k - 1
\* two windows: one Segment from the first, then three candidates of which the
\* whitespace one was discarded; the list holds three Segments, the last has id 2
C16_Witness ==
    /\ windows = 2
    /\ pc = "loop"
    /\ all_tokens[1] = SubSeq(BoundaryExample, 1, 4) \o UnorderedExample
    /\ Len(all_segments[1]) = 3
    /\ all_segments[1][3].id = 2

\* C17: the options of every model.decode call carry beam_size and patience only
\* when their temperature is 0, and best_of only when their temperature is > 0.
C17_SearchOptionsMatchTemperature ==
    \A k \in 1..Len(decode_calls) :
        /\ decode_calls[k].temperature > 0 =>
              IsNone(decode_calls[k].beam_size) /\ IsNone(decode_calls[k].patience)
        /\ decode_calls[k].temperature = 0 => IsNone(decode_calls[k].best_of)

\* C18: a loop iteration never moves seek by more than N_FRAMES past the frame
\* at which its window started, for any number of alternatives and any result.
C18_AdvanceAtMostOneWindow ==
    [][IterationEnds => seek' <= WindowStart + N_FRAMES]_vars

\* C19: every Segment appended for a window starts at or after the window's
\* timestamp_offset (and so at or after 0), and in the consecutive-timestamps
\* case the first token of every slice, from which start is computed, is a
\* timestamp token.
C19_StartNotBeforeWindow ==
    [][pc = "extract" =>
         LET tokens == result.tokens[i + 1]
             pairs == Consecutive(tokens)
         IN /\ \A k \in 1..Len(NewSegments(i)) :
                  /\ NewSegments(i)[k].start >= timestamp_offset
                  /\ NewSegments(i)[k].start >= 0
            /\ \A k \in 1..Len(pairs) :
                  IsTimestamp(tokens[IF k = 1 THEN 1 ELSE pairs[k - 1] + 1])]_vars

\* C20: in every state 0 <= prompt_reset_since <= len(all_tokens[0]), and the
\* value line 162 reads for a window is never below the value it read for the
\* previous window, for any number of alternatives.
C20_PromptResetWithinHistory ==
    /\ [](0 <= prompt_reset_since /\ prompt_reset_since <= Len(all_tokens[1]))
    /\ [][(pc = "loop" /\ pc' = "silence_check") =>
            prompt_reset_since >= reset_at_decode]_vars

====
